---- MODULE Spec2Model ----
(***************************************************************************)
(* CometAPI provider adapter: the catalog resolver (getCometAPIModels) and *)
(* the completion stream normalizer (CometAPIHandler.createMessage /       *)
(* completePrompt).                                                        *)
(*                                                                         *)
(* JavaScript values are tagged records [t |-> <type>, v |-> <value>].     *)
(* A JavaScript string is a sequence of string tokens: an identifier is    *)
(* written one character per token (so toLowerCase, startsWith and         *)
(* includes work on characters), a message is written one template piece   *)
(* per token and concatenation is \o.                                      *)
(***************************************************************************)
EXTENDS Integers, Sequences, FiniteSets, TLC

VARIABLES
    options,       \* ApiHandlerOptions given to the handler / the resolver
    models,        \* CometAPIHandler.models, the last resolved catalog
    op,            \* the entry point running: none, createMessage, completePrompt, getCometAPIModels
    pc,            \* position of createMessage / completePrompt
    pending,       \* the caller has pulled and waits for the generator
    delivered,     \* what the completion client has delivered so far: chunks, or the response
    cur,           \* the chunk the generator is suspended on at `yield`
    lastUsage,     \* createMessage's local lastUsage
    events,        \* StreamEvents the caller has received, in order
    fault,         \* the error the completion client raised (request or iteration), or Undef
    raised,        \* the error raised to the caller of the handler, or Undef
    requests,      \* calls of client.chat.completions.create, in order
    returned,      \* completePrompt's return value, or Undef
    catPc,         \* position of getCometAPIModels
    httpRequests,  \* fetch() calls issued by getCometAPIModels, in order
    resp,          \* the response fetch() resolved with
    fetched,       \* what the remote fetch came to (kind, listing)
    catResult,     \* the catalog getCometAPIModels returned
    catRaised,     \* an error getCometAPIModels raised to its caller, or Undef
    catRef,        \* which object getCometAPIModels returned: cometApiModels itself or mergedModels
    staticTable,   \* the contents of the exported object cometApiModels
    prompt,        \* the argument of completePrompt
    calls          \* the fetchModel calls in flight on one handler, per caller

hVars == <<models, op, pc, pending, delivered, cur, lastUsage, events, fault, raised, requests, returned,
           prompt>>
catVars == <<catPc, httpRequests, resp, fetched, catResult, catRaised, catRef>>
envVars == <<staticTable, calls>>
vars == <<options, models, op, pc, pending, delivered, cur, lastUsage, events, fault, raised,
          requests, returned, catPc, httpRequests, resp, fetched, catResult, catRaised, catRef,
          staticTable, prompt, calls>>

(***************************************************************************)
(* Bounds of the model.                                                    *)
(***************************************************************************)
MaxChunks == 3
MaxListing == 2
MaxCallers == 2
MaxCalls == 2

(***************************************************************************)
(* JavaScript values.                                                      *)
(***************************************************************************)
Undef == [t |-> "undefined"]
Null == [t |-> "null"]
Num(n) == [t |-> "number", v |-> n]
Str(s) == [t |-> "string", v |-> s]
Arr(s) == [t |-> "array", v |-> s]

\* JavaScript truthiness of a value
Truthy(x) ==
    CASE x.t = "undefined" -> FALSE
      [] x.t = "null" -> FALSE
      [] x.t = "number" -> x.v # 0
      [] x.t = "string" -> x.v # <<>>
      [] OTHER -> TRUE

\* a ?? b
Nullish(x) == x.t \in {"undefined", "null"}

\* `${x}` : the text of a value inside a template literal
Template(x) ==
    CASE x.t = "undefined" -> <<"undefined">>
      [] x.t = "null" -> <<"null">>
      [] x.t = "number" -> <<ToString(x.v)>>
      [] x.t = "string" -> x.v
      [] OTHER -> <<"[object Object]">>

UpperChars == <<"A","B","C","D","E","F","G","H","I","J","K","L","M",
                "N","O","P","Q","R","S","T","U","V","W","X","Y","Z">>
LowerChars == <<"a","b","c","d","e","f","g","h","i","j","k","l","m",
                "n","o","p","q","r","s","t","u","v","w","x","y","z">>

\* String.prototype.toLowerCase
toLowerCase(s) ==
    [i \in 1..Len(s) |->
        IF \E k \in 1..Len(UpperChars) : UpperChars[k] = s[i]
        THEN LowerChars[CHOOSE k \in 1..Len(UpperChars) : UpperChars[k] = s[i]]
        ELSE s[i]]

\* String.prototype.startsWith
startsWith(s, p) == Len(p) <= Len(s) /\ SubSeq(s, 1, Len(p)) = p

\* String.prototype.includes
includes(s, p) == \E i \in 1..(Len(s) - Len(p) + 1) : SubSeq(s, i, i + Len(p) - 1) = p

(***************************************************************************)
(* The static table (packages/types, cometApiModels).                      *)
(***************************************************************************)
cometApiDefaultModelId ==
    <<"c","l","a","u","d","e","-","3","-","5","-","s","o","n","n","e","t","-","2","0","2","4","1","0","2","2">>
HaikuId ==
    <<"c","l","a","u","d","e","-","3","-","5","-","h","a","i","k","u","-","2","0","2","4","1","0","2","2">>

cometApiModels ==
    [id \in {cometApiDefaultModelId, HaikuId} |->
        IF id = cometApiDefaultModelId
        THEN [maxTokens |-> 8192, contextWindow |-> 200000, supportsImages |-> TRUE,
              supportsPromptCache |-> FALSE, inputPrice |-> Num(3), outputPrice |-> Num(15),
              description |-> <<"Anthropic's Claude 3.5 Sonnet via CometAPI">>]
        ELSE [maxTokens |-> 8192, contextWindow |-> 200000, supportsImages |-> TRUE,
              supportsPromptCache |-> FALSE, inputPrice |-> Num(1), outputPrice |-> Num(5),
              description |-> <<"Anthropic's Claude 3.5 Haiku via CometAPI">>]]

(***************************************************************************)
(* The catalog resolver: fetchers/cometapi.ts                              *)
(***************************************************************************)
imageGenPatterns ==
    << <<"d","a","l","l","-","e">>,
       <<"d","a","l","l","e">>,
       <<"m","i","d","j","o","u","r","n","e","y">>,
       <<"s","t","a","b","l","e","-","d","i","f","f","u","s","i","o","n">>,
       <<"s","d","-">>,
       <<"f","l","u","x","-">>,
       <<"p","l","a","y","g","r","o","u","n","d","-","v">>,
       <<"i","d","e","o","g","r","a","m">>,
       <<"r","e","c","r","a","f","t">>,
       <<"b","l","a","c","k","-","f","o","r","e","s","t","-","l","a","b","s">> >>

prefixPatterns ==
    << <<"t","t","s">>,
       <<"m","j","_">>,
       <<"v","e","o">>,
       <<"r","u","n","w","a","y">>,
       <<"s","u","n","o">>,
       <<"k","l","i","n","g","_">> >>

\* a mutation of isTextGenerationModel: the identifier is compared as written
isTextGenerationModelCaseSensitive(modelId) ==
    LET hasFilteredPrefix == \E k \in 1..Len(prefixPatterns) : startsWith(modelId, prefixPatterns[k])
        hasFilteredPattern == \E k \in 1..Len(imageGenPatterns) : includes(modelId, imageGenPatterns[k])
    IN  ~hasFilteredPrefix /\ ~hasFilteredPattern

isTextGenerationModel(modelId) ==
    LET id == toLowerCase(modelId)
        hasFilteredPrefix == \E k \in 1..Len(prefixPatterns) : startsWith(id, prefixPatterns[k])
        hasFilteredPattern == \E k \in 1..Len(imageGenPatterns) : includes(id, imageGenPatterns[k])
    IN  ~hasFilteredPrefix /\ ~hasFilteredPattern

\* the strings the price parser reads as numbers (micro-units per token)
PriceTable ==
    [s \in {"0.000003", "0.000015", "0"} |->
        CASE s = "0.000003" -> 3 [] s = "0.000015" -> 15 [] OTHER -> 0]

\* shared/cost parseApiPrice: absent when the field is missing or unparsable
parseApiPrice(price) ==
    IF price.t = "string" /\ Len(price.v) = 1 /\ price.v[1] \in DOMAIN PriceTable
    THEN Num(PriceTable[price.v[1]])
    ELSE Undef

\* model.pricing?.prompt, model.pricing?.completion
pricingField(model, f) == IF model.pricing.t = "object" THEN model.pricing[f] ELSE Undef

\* the family heuristics: [contextWindow, supportsImages, description]
smartDefaults(id) ==
    LET modelId == toLowerCase(id)
        dflt == [contextWindow |-> 8192, supportsImages |-> FALSE, description |-> id]
    IN  IF includes(modelId, <<"c","l","a","u","d","e">>) THEN
            IF includes(modelId, <<"3","-","5","-","s","o","n","n","e","t">>) THEN
                [contextWindow |-> 200000, supportsImages |-> TRUE,
                 description |-> <<"Claude 3.5 Sonnet - Advanced reasoning and code generation">>]
            ELSE IF includes(modelId, <<"3","-","5","-","h","a","i","k","u">>) THEN
                [contextWindow |-> 200000, supportsImages |-> TRUE,
                 description |-> <<"Claude 3.5 Haiku - Fast and efficient responses">>]
            ELSE IF includes(modelId, <<"c","l","a","u","d","e","-","3">>) THEN
                [contextWindow |-> 200000, supportsImages |-> TRUE,
                 description |-> <<"Claude 3 series - Advanced AI assistant">>]
            ELSE dflt
        ELSE IF includes(modelId, <<"g","p","t","-","4">>) THEN
            [contextWindow |-> 128000,
             supportsImages |-> includes(modelId, <<"v","i","s","i","o","n">>) \/ includes(modelId, <<"4","o">>),
             description |-> IF includes(modelId, <<"4","o">>)
                             THEN <<"GPT-4o - Optimized for speed and cost">>
                             ELSE <<"GPT-4 - Advanced language model">>]
        ELSE IF includes(modelId, <<"g","p","t","-","3",".","5">>) THEN
            [contextWindow |-> 16385, supportsImages |-> FALSE,
             description |-> <<"GPT-3.5 Turbo - Fast and capable">>]
        ELSE IF includes(modelId, <<"q","w","e","n">>) THEN
            [contextWindow |-> 32768, supportsImages |-> FALSE,
             description |-> <<"Qwen ">>
                             \o (IF includes(modelId, <<"c","o","d","e","r">>) THEN <<"Coder">> ELSE <<>>)
                             \o <<" - Alibaba's language model">>]
        ELSE IF includes(modelId, <<"a","b","a","b">>) THEN
            [contextWindow |-> 245760, supportsImages |-> FALSE,
             description |-> <<"Minimax Abab - Chinese-optimized language model">>]
        ELSE IF includes(modelId, <<"g","e","m","i","n","i">>) THEN
            [contextWindow |-> IF includes(modelId, <<"p","r","o">>) THEN 2097152 ELSE 1048576,
             supportsImages |-> TRUE,
             description |-> <<"Google Gemini - Multimodal AI model">>]
        ELSE IF includes(modelId, <<"l","l","a","m","a">>) THEN
            [contextWindow |-> IF includes(modelId, <<"3",".","1">>) THEN 131072 ELSE 8192,
             supportsImages |-> FALSE,
             description |-> <<"Meta Llama - Open source language model">>]
        ELSE IF includes(modelId, <<"m","i","s","t","r","a","l">>) THEN
            [contextWindow |-> 32768, supportsImages |-> FALSE,
             description |-> <<"Mistral AI - European AI excellence">>]
        ELSE IF includes(modelId, <<"y","i","-">>) THEN
            [contextWindow |-> 200000, supportsImages |-> FALSE,
             description |-> <<"01.AI Yi - Bilingual AI model">>]
        ELSE IF includes(modelId, <<"d","e","e","p","s","e","e","k">>) THEN
            [contextWindow |-> 64000, supportsImages |-> FALSE,
             description |-> <<"DeepSeek - Code and reasoning specialist">>]
        ELSE dflt

\* a mutation of the synthesis: the family rules are not applied
synthesizeDefaultsOnly(model) ==
    [contextWindow |-> 8192, supportsImages |-> FALSE, supportsPromptCache |-> FALSE,
     inputPrice |-> parseApiPrice(pricingField(model, "prompt")),
     outputPrice |-> parseApiPrice(pricingField(model, "completion")),
     description |-> model.id.v]

\* a mutation of the synthesis: the descriptor's own context_length is taken when it has one
synthesizeUsingContextLength(model) ==
    [contextWindow |-> IF model.context_length.t = "number" THEN model.context_length.v
                       ELSE smartDefaults(model.id.v).contextWindow,
     supportsImages |-> smartDefaults(model.id.v).supportsImages, supportsPromptCache |-> FALSE,
     inputPrice |-> parseApiPrice(pricingField(model, "prompt")),
     outputPrice |-> parseApiPrice(pricingField(model, "completion")),
     description |-> smartDefaults(model.id.v).description]

\* the ModelInfo stored at models[model.id]
synthesize(model) ==
    LET d == smartDefaults(model.id.v)
    IN  [contextWindow |-> d.contextWindow,
         supportsImages |-> d.supportsImages,
         supportsPromptCache |-> FALSE,
         inputPrice |-> parseApiPrice(pricingField(model, "prompt")),
         outputPrice |-> parseApiPrice(pricingField(model, "completion")),
         description |-> d.description]

\* models[k] = v
Put(m, k, v) == [x \in DOMAIN m \cup {k} |-> IF x = k THEN v ELSE m[x]]

\* the loop over parseResult.data.data, from the i-th descriptor on
RECURSIVE collect(_, _, _)
collect(data, i, acc) ==
    IF i > Len(data) THEN acc
    ELSE IF ~isTextGenerationModel(data[i].id.v) THEN collect(data, i + 1, acc)
    ELSE collect(data, i + 1, Put(acc, data[i].id.v, synthesize(data[i])))

\* a mutation of the merge: only the second operand is kept
spreadSecondOnly(a, b) == b

\* a mutation of the merge: the static entries are spread last
spreadStaticLast(a, b) == [x \in DOMAIN a \cup DOMAIN b |-> IF x \in DOMAIN a THEN a[x] ELSE b[x]]

\* { ...a, ...b }
spread(a, b) == [x \in DOMAIN a \cup DOMAIN b |-> IF x \in DOMAIN b THEN b[x] ELSE a[x]]

\* cometApiModelSchema
validModel(e) ==
    /\ e.id.t = "string"
    /\ e.context_length.t \in {"undefined", "number"}
    /\ e.max_tokens.t \in {"undefined", "number"}
    /\ \/ e.pricing.t = "undefined"
       \/ /\ e.pricing.t = "object"
          /\ e.pricing.prompt.t \in {"undefined", "null", "string"}
          /\ e.pricing.completion.t \in {"undefined", "null", "string"}

\* cometApiModelsResponseSchema.safeParse(data).success
safeParseSuccess(json) ==
    /\ json.data.t = "array"
    /\ \A i \in 1..Len(json.data.v) : validModel(json.data.v[i])


\* options?.<f>
optField(o, f) == IF o.t = "object" THEN o[f] ELSE Undef

Options(key, base, modelId) ==
    [t |-> "object", cometApiKey |-> key, cometApiBaseUrl |-> base, cometApiModelId |-> modelId,
     modelTemperature |-> Undef]

defaultBaseURL == <<"https://api.cometapi.com/v1">>

\* options?.cometApiBaseUrl || "https://api.cometapi.com/v1"
baseURL(o) == IF Truthy(optField(o, "cometApiBaseUrl")) THEN optField(o, "cometApiBaseUrl").v ELSE defaultBaseURL

\* response.ok
ok(response) == response.status \in 200..299

\* a mutation of the fallback: the failure is thrown on to the caller
rethrow(kind) ==
    /\ catPc' = "returned"
    /\ fetched' = kind
    /\ catResult' = <<>>
    /\ catRef' = "none"
    /\ catRaised' = Str(<<"Error fetching CometAPI models: ", kind>>)

\* catch (error) { ... return cometApiModels }, and the schema fallback
fallback(kind) ==
    /\ catPc' = "returned"
    /\ fetched' = kind
    /\ catResult' = staticTable
    /\ catRef' = "cometApiModels"
    /\ catRaised' = Undef

\* a mutation of the call: the fetch is issued whether or not a key is given
callAlwaysFetching(o) ==
    /\ catPc = "idle"
    /\ catPc' = "fetching"
    /\ httpRequests' = Append(httpRequests,
            [url |-> baseURL(o) \o <<"/models">>, method |-> "GET",
             authorization |-> <<"Bearer ">> \o Template(optField(o, "cometApiKey"))])
    /\ UNCHANGED <<resp, fetched, catResult, catRaised, catRef>>

\* getCometAPIModels up to its first await
call(o) ==
    /\ catPc = "idle"
    /\ IF ~Truthy(optField(o, "cometApiKey"))
       THEN /\ catPc' = "returned"
            /\ fetched' = "nokey"
            /\ catResult' = staticTable
            /\ catRef' = "cometApiModels"
            /\ UNCHANGED <<httpRequests, resp, catRaised>>
       ELSE /\ catPc' = "fetching"
            /\ httpRequests' = Append(httpRequests,
                    [url |-> baseURL(o) \o <<"/models">>, method |-> "GET",
                     authorization |-> <<"Bearer ">> \o Template(optField(o, "cometApiKey"))])
            /\ UNCHANGED <<resp, fetched, catResult, catRaised, catRef>>

\* fetch() rejects: a network error, or the 10 second timeout aborts it
fetchRejects(kind) ==
    /\ catPc = "fetching"
    /\ fallback(kind)
    /\ UNCHANGED <<httpRequests, resp>>

\* fetch() resolves with a response
fetchResponds(response) ==
    /\ catPc = "fetching"
    /\ resp' = response
    /\ IF ~ok(response)
       THEN fallback("status")
       ELSE /\ catPc' = "json"
            /\ UNCHANGED <<fetched, catResult, catRaised, catRef>>
    /\ UNCHANGED httpRequests

\* response.json() settles, then safeParse, the loop and the merge
jsonSettles ==
    /\ catPc = "json"
    /\ IF ~resp.body.json THEN fallback("notjson")
       ELSE IF ~safeParseSuccess(resp.body) THEN fallback("invalid")
       ELSE /\ catPc' = "returned"
            /\ fetched' = "ok"
            /\ catResult' = spread(staticTable, collect(resp.body.data.v, 1, <<>>))
            /\ catRef' = "mergedModels"
            /\ catRaised' = Undef
    /\ UNCHANGED <<httpRequests, resp>>

(***************************************************************************)
(* Inputs of the resolver: options, responses, listings.                   *)
(***************************************************************************)
NoPricing == Undef
SomePricing == [t |-> "object", prompt |-> Str(<<"0.000003">>), completion |-> Null]
BadPricing == [t |-> "object", prompt |-> Num(3), completion |-> Undef]

Desc(id, pricing) ==
    [id |-> Str(id), pricing |-> pricing, context_length |-> Undef, max_tokens |-> Undef]

\* identifiers of the families the smart defaults know, of two families at once, of none
FamilyIds ==
    { <<"c","l","a","u","d","e","-","2">>,
      <<"g","p","t","-","3",".","5","-","t","u","r","b","o">>,
      <<"Q","w","e","n","-","C","o","d","e","r">>,
      <<"a","b","a","b","6">>,
      <<"g","e","m","i","n","i","-","f","l","a","s","h">>,
      <<"l","l","a","m","a","-","3",".","1">>,
      <<"m","i","s","t","r","a","l","-","7","b">>,
      <<"y","i","-","3","4","b">>,
      <<"d","e","e","p","s","e","e","k","-","v","3">>,
      <<"g","p","t","-","4","-","g","e","m","i","n","i","-","p","r","o">>,
      <<"d","e","e","p","s","e","e","k","-","l","l","a","m","a">>,
      <<"p","h","i","-","3">> }

ListedIds ==
    { <<"d","a","l","l","-","e","-","3">>,
      <<"D","A","L","L","-","E","-","3">>,
      <<"t","t","s","-","1">>,
      <<"T","T","S","-","1">>,
      <<"M","j","_","v","6">>,
      <<"m","y","-","t","t","s">>,
      <<"g","p","t","-","4","o">>,
      <<"G","e","m","i","n","i","-","P","r","o">>,
      <<"x","S","D","-","1">>,
      <<"v","e","o","3">>,
      <<"C","l","a","u","d","e","-","3","-","O","p","u","s">> }

Descriptors ==
    {Desc(id, NoPricing) : id \in ListedIds \cup {cometApiDefaultModelId, HaikuId}}
    \cup {Desc(id, SomePricing) : id \in {cometApiDefaultModelId, <<"g","p","t","-","4","o">>}}
    \cup {[id |-> Str(HaikuId), pricing |-> NoPricing,
           context_length |-> Num(4096), max_tokens |-> Num(1024)]}

InvalidDescriptors ==
    {[id |-> Undef, pricing |-> NoPricing, context_length |-> Undef, max_tokens |-> Undef],
     [id |-> Num(7), pricing |-> NoPricing, context_length |-> Undef, max_tokens |-> Undef],
     [id |-> Str(HaikuId), pricing |-> BadPricing, context_length |-> Undef, max_tokens |-> Undef],
     [id |-> Str(HaikuId), pricing |-> NoPricing, context_length |-> Str(<<"4096">>), max_tokens |-> Undef]}

SeqsUpTo(S, n) == UNION {[1..k -> S] : k \in 0..n}

Listings == SeqsUpTo(Descriptors, MaxListing)

\* listings of the family identifiers: each on its own, and two pairs
FamilyListings ==
    {<<Desc(id, NoPricing)>> : id \in FamilyIds}
    \cup {<<Desc(<<"d","e","e","p","s","e","e","k","-","l","l","a","m","a">>, NoPricing),
            [id |-> Str(HaikuId), pricing |-> NoPricing,
             context_length |-> Num(4096), max_tokens |-> Num(1024)]>>,
          <<Desc(<<"p","h","i","-","3">>, NoPricing), Desc(<<"c","l","a","u","d","e","-","2">>, SomePricing)>>}

InvalidListings ==
    {<<bad>> : bad \in InvalidDescriptors}
    \cup {<<Desc(<<"g","p","t","-","4","o">>, NoPricing), bad>> : bad \in InvalidDescriptors}

NotJson == [json |-> FALSE, data |-> Undef]
NoResponse == [status |-> 0, body |-> NotJson]
Json(data) == [json |-> TRUE, data |-> data]

Bodies ==
    {NotJson, Json(Undef), Json(Null), Json(Str(<<"models">>))}
    \cup {Json(Arr(l)) : l \in Listings \cup FamilyListings \cup InvalidListings}

Responses ==
    {[status |-> s, body |-> NotJson] : s \in {401, 404, 500}}
    \cup {[status |-> 500, body |-> Json(Arr(<<Desc(<<"g","p","t","-","4","o">>, NoPricing)>>))]}
    \cup {[status |-> 200, body |-> b] : b \in Bodies}

RejectKinds == {"network", "timeout"}

\* the remote answers seen while a handler resolves its catalog
HandlerResponses ==
    {[status |-> 500, body |-> NotJson],
     [status |-> 200, body |-> Json(Undef)],
     [status |-> 200, body |-> Json(Arr(<<Desc(cometApiDefaultModelId, SomePricing)>>))]}

CatalogOptions ==
    {Undef}
    \cup {Options(k, b, Undef) :
            k \in {Undef, Str(<<>>), Str(<<"sk-key">>)},
            b \in {Undef, Str(<<>>), Str(<<"https://proxy.example/v1">>)}}

Callers == 1..MaxCallers

\* a caller of fetchModel that has not called yet
IdleCall == [entry |-> "none", pc |-> "idle", started |-> 0, settled |-> 0, result |-> <<>>, model |-> Undef]

(***************************************************************************)
(* The resolver called on its own.                                         *)
(***************************************************************************)
InitRest ==
    /\ models = <<>>
    /\ op = "none"
    /\ pc = "idle"
    /\ pending = FALSE
    /\ delivered = <<>>
    /\ cur = Undef
    /\ lastUsage = Undef
    /\ events = <<>>
    /\ raised = Undef
    /\ requests = <<>>
    /\ returned = Undef
    /\ catPc = "idle"
    /\ httpRequests = <<>>
    /\ resp = NoResponse
    /\ fetched = "none"
    /\ catResult = <<>>
    /\ catRaised = Undef
    /\ catRef = "none"
    /\ staticTable = cometApiModels
    /\ prompt = Undef
    /\ calls = [c \in Callers |-> IdleCall]

InitCommon == fault = Undef /\ InitRest

InitCatalog == options \in CatalogOptions /\ InitCommon

GetCometAPIModels ==
    /\ op = "none"
    /\ op' = "getCometAPIModels"
    /\ call(options)
    /\ UNCHANGED <<envVars, prompt, options, models, pc, pending, delivered, cur, lastUsage, events, fault, raised,
                   requests, returned>>

FetchRejects == \E kind \in RejectKinds : fetchRejects(kind) /\ UNCHANGED <<options, hVars, envVars>>

FetchResponds == \E response \in Responses : fetchResponds(response) /\ UNCHANGED <<options, hVars, envVars>>

HandlerFetchResponds ==
    \E response \in HandlerResponses : fetchResponds(response) /\ UNCHANGED <<options, hVars, envVars>>

JsonSettles == jsonSettles /\ UNCHANGED <<options, hVars, envVars>>

NextCatalog == GetCometAPIModels \/ FetchRejects \/ FetchResponds \/ JsonSettles

SpecCatalog == InitCatalog /\ [][NextCatalog]_vars


(***************************************************************************)
(* The completion stream normalizer: providers/cometapi.ts                 *)
(***************************************************************************)
Obj == "object"

\* new Error(message)
Error(message) == [t |-> "error", message |-> Str(message), code |-> Undef, error |-> Undef]

\* error?.<f> of a caught value
errField(e, f) == IF e.t = "error" THEN e[f] ELSE Undef

\* String(error) of a caught value
String(e) ==
    IF e.t = "error"
    THEN IF Truthy(e.message) THEN <<"Error: ">> \o e.message.v ELSE <<"Error">>
    ELSE Template(e)

\* `${error?.message || error}`
messageOrSelf(e) == IF Truthy(errField(e, "message")) THEN errField(e, "message").v ELSE String(e)

\* the texts JSON.parse accepts, with the value each parses to
ParsedJson ==
    [x \in {"{error:{details:[{retryDelay:30s}]}}", "{error:{details:[{},{retryDelay:7s}]}}",
            "{error:{details:[]}}", "{error:{}}", "{}", "null"} |->
        CASE x = "{error:{details:[{retryDelay:30s}]}}" ->
                [t |-> Obj, error |-> [t |-> Obj, details |-> Arr(<<[retryDelay |-> Str(<<"30s">>)]>>)]]
          [] x = "{error:{details:[{},{retryDelay:7s}]}}" ->
                [t |-> Obj, error |-> [t |-> Obj,
                    details |-> Arr(<<[retryDelay |-> Undef], [retryDelay |-> Str(<<"7s">>)]>>)]]
          [] x = "{error:{details:[]}}" -> [t |-> Obj, error |-> [t |-> Obj, details |-> Arr(<<>>)]]
          [] x = "{error:{}}" -> [t |-> Obj, error |-> [t |-> Obj, details |-> Undef]]
          [] x = "{}" -> [t |-> Obj, error |-> Undef]
          [] OTHER -> Null]

\* JSON.parse(raw) does not throw
parses(raw) == raw.t = "string" /\ Len(raw.v) = 1 /\ raw.v[1] \in DOMAIN ParsedJson

\* details.map((detail) => detail.retryDelay).filter((r) => r)
retryDelays(details) == SelectSeq([i \in 1..Len(details) |-> details[i].retryDelay], Truthy)

\* the try block of makeCometAPIErrorReadable: [threw, retryAfter]
tryRetryAfter(e) ==
    IF e.error.t # Obj THEN [threw |-> TRUE, retryAfter |-> Undef]
    ELSE LET raw == IF e.error.metadata.t = Obj THEN e.error.metadata.raw ELSE Undef
         IN  IF ~parses(raw) THEN [threw |-> TRUE, retryAfter |-> Undef]
             ELSE LET parsedJson == ParsedJson[raw.v[1]]
                  IN  IF parsedJson.t # Obj \/ parsedJson.error.t # Obj
                      THEN [threw |-> FALSE, retryAfter |-> Undef]
                      ELSE IF parsedJson.error.details.t # "array"
                      THEN [threw |-> TRUE, retryAfter |-> Undef]
                      ELSE LET r == retryDelays(parsedJson.error.details.v)
                           IN  [threw |-> FALSE, retryAfter |-> IF r = <<>> THEN Undef ELSE r[1]]

isRateLimit(e) == errField(e, "code") = Num(429) \/ errField(e, "code") = Num(418)

\* a mutation of the transform: no try around the parse, what it throws takes the place
\* of the result
makeCometAPIErrorReadableNoTry(e) ==
    IF ~isRateLimit(e)
    THEN <<"CometAPI Error: ">> \o messageOrSelf(e)
    ELSE LET r == tryRetryAfter(e)
         IN  IF r.threw THEN <<"Uncaught ", "SyntaxError or TypeError">>
             ELSE IF Truthy(r.retryAfter)
             THEN <<"Rate limit exceeded, try again in ">> \o Template(r.retryAfter) \o <<".">>
             ELSE <<"Rate limit exceeded, try again later.\n">> \o messageOrSelf(e)

makeCometAPIErrorReadable(e) ==
    IF ~isRateLimit(e)
    THEN <<"CometAPI Error: ">> \o messageOrSelf(e)
    ELSE LET r == tryRetryAfter(e)
         IN  IF ~r.threw /\ Truthy(r.retryAfter)
             THEN <<"Rate limit exceeded, try again in ">> \o Template(r.retryAfter) \o <<".">>
             ELSE <<"Rate limit exceeded, try again later.\n">> \o messageOrSelf(e)

\* lastUsage.<f> || 0
orZero(x) == IF Truthy(x) THEN x.v ELSE 0

\* a mutation of the cost: the upstream inference cost is left out
getTotalCostWithoutUpstream(u) == orZero(u.cost)

getTotalCost(u) == orZero(u.upstream_inference_cost) + orZero(u.cost)

TextEvent(text) == [type |-> "text", text |-> text]

UsageEvent(u) ==
    [type |-> "usage",
     inputTokens |-> orZero(u.prompt_tokens),
     outputTokens |-> orZero(u.completion_tokens),
     cacheReadTokens |-> u.cached_tokens,
     reasoningTokens |-> u.reasoning_tokens,
     totalCost |-> getTotalCost(u)]

\* the Error thrown for an in-band error object
inBandError(error) ==
    Error(<<"CometAPI Error ">> \o Template(IF error.t = Obj THEN error.code ELSE Undef)
          \o <<": ">> \o Template(IF error.t = Obj THEN error.message ELSE Undef))

\* chunk.choices[0]?.delta?.content
deltaContent(chunk) ==
    IF Len(chunk.choices) = 0 THEN Undef
    ELSE IF chunk.choices[1].delta.t # Obj THEN Undef
    ELSE chunk.choices[1].delta.content

\* getModelParams({ format: "openai", modelId, model, settings }): the derived maxTokens
\* (the entry's own, undefined when the entry has none) and temperature (0 unless configured)
getModelParams(modelId, model, settings) ==
    [maxTokens |-> IF "maxTokens" \in DOMAIN model THEN Num(model.maxTokens) ELSE Undef,
     temperature |-> IF Nullish(settings.modelTemperature) THEN Num(0) ELSE settings.modelTemperature]

\* a mutation of getModel: an identifier the catalog does not hold is replaced by the default one
getModelDefaultingId(o, catalog) ==
    LET wanted == IF Nullish(o.cometApiModelId) THEN cometApiDefaultModelId ELSE o.cometApiModelId.v
        id == IF wanted \in DOMAIN catalog THEN wanted ELSE cometApiDefaultModelId
        info == IF id \in DOMAIN catalog THEN catalog[id] ELSE staticTable[cometApiDefaultModelId]
        params == getModelParams(id, info, o)
    IN  [id |-> id, info |-> info, maxTokens |-> params.maxTokens, temperature |-> params.temperature]

\* getModel(): the identifier and the info selected from this.models, with the derived parameters
getModel(o, catalog) ==
    LET id == IF Nullish(o.cometApiModelId) THEN cometApiDefaultModelId ELSE o.cometApiModelId.v
        info == IF id \in DOMAIN catalog THEN catalog[id] ELSE staticTable[cometApiDefaultModelId]
        params == getModelParams(id, info, o)
    IN  [id |-> id, info |-> info, maxTokens |-> params.maxTokens, temperature |-> params.temperature]

\* the completionParams object of createMessage (stream) and of completePrompt: a key the
\* object does not carry is absent from the record (the translated conversation is left out)
completionParams(o, catalog, stream) ==
    LET model == getModel(o, catalog)
    IN  IF stream
        THEN IF Truthy(model.maxTokens) /\ model.maxTokens.v > 0
             THEN [model |-> model.id, max_tokens |-> model.maxTokens, temperature |-> model.temperature,
                   stream |-> TRUE, stream_options |-> [include_usage |-> TRUE]]
             ELSE [model |-> model.id, temperature |-> model.temperature,
                   stream |-> TRUE, stream_options |-> [include_usage |-> TRUE]]
        ELSE [model |-> model.id, max_tokens |-> model.maxTokens, temperature |-> model.temperature,
              messages |-> <<[role |-> "user", content |-> prompt]>>, stream |-> FALSE]


(***************************************************************************)
(* Inputs of the handler: chunks, transport errors, responses.             *)
(***************************************************************************)
Usage(p, c, cached, reasoning, cost, upstream) ==
    [t |-> Obj, prompt_tokens |-> p, completion_tokens |-> c, cached_tokens |-> cached,
     reasoning_tokens |-> reasoning, cost |-> cost, upstream_inference_cost |-> upstream]

U1 == Usage(Num(10), Num(20), Undef, Undef, Undef, Undef)
U2 == Usage(Undef, Num(0), Num(3), Num(1), Num(5), Num(2))
U3 == Usage(Num(1), Num(1), Undef, Undef, Num(5), Undef)
U4 == Usage(Num(1), Num(1), Undef, Undef, Undef, Num(2))

ErrorChunk(error) == [kind |-> "error", error |-> error, choices |-> <<>>, usage |-> Undef]
DataChunk(delta, usage) == [kind |-> "data", error |-> Undef, choices |-> <<[delta |-> delta]>>, usage |-> usage]
Delta(content) == [t |-> Obj, content |-> content]

ErrorChunks ==
    {ErrorChunk([t |-> Obj, code |-> Num(500), message |-> Str(<<"API Error">>)]),
     ErrorChunk([t |-> Obj, code |-> Num(429), message |-> Str(<<"Too Many Requests">>)]),
     ErrorChunk([t |-> Obj, code |-> Num(418), message |-> Undef])}

DataChunks ==
    {DataChunk(Delta(Str(<<"A">>)), Undef),
     DataChunk(Delta(Str(<<"B">>)), U1),
     DataChunk(Delta(Str(<<>>)), Undef),
     DataChunk(Delta(Undef), U1),
     DataChunk(Undef, Null),
     DataChunk(Delta(Null), U2),
     [kind |-> "data", error |-> Undef, choices |-> <<>>, usage |-> U2],
     [kind |-> "data", error |-> Undef, choices |-> <<>>, usage |-> U3],
     DataChunk(Delta(Str(<<>>)), U4)}

Chunks == ErrorChunks \cup DataChunks

Metadata(raw) == [t |-> Obj, metadata |-> [t |-> Obj, raw |-> raw]]

ApiError(code, message, error) == [t |-> "error", message |-> message, code |-> code, error |-> error]

TransportErrors ==
    {ApiError(Undef, Str(<<"THROTTLING error">>), Undef),
     ApiError(Num(500), Str(<<"Internal Server Error">>), Undef),
     ApiError(Num(429), Str(<<"Rate limited">>), Metadata(Str(<<"{error:{details:[{retryDelay:30s}]}}">>))),
     ApiError(Num(429), Str(<<"Rate limited">>), Metadata(Str(<<"<html>">>))),
     ApiError(Num(418), Str(<<>>), Undef),
     Null}

Choice(content) == [message |-> [t |-> Obj, content |-> content]]

CompletionResponses ==
    {[kind |-> "error", error |-> [t |-> Obj, code |-> Num(500), message |-> Str(<<"API Error">>)],
      choices |-> <<>>],
     [kind |-> "error", error |-> [t |-> Obj, code |-> Num(429), message |-> Undef],
      choices |-> <<Choice(Str(<<"ignored">>))>>],
     [kind |-> "completion", error |-> Undef, choices |-> <<>>],
     [kind |-> "completion", error |-> Undef, choices |-> <<Choice(Str(<<"test completion">>))>>],
     [kind |-> "completion", error |-> Undef, choices |-> <<Choice(Str(<<>>))>>],
     [kind |-> "completion", error |-> Undef, choices |-> <<Choice(Null)>>]}

Prompts == {Str(<<"test prompt">>), Str(<<>>), Null}

HandlerOptions ==
    {Options(k, Undef, m) :
        k \in {Undef, Str(<<"sk-key">>)},
        m \in {Undef, Str(HaikuId),
               Str(<<"n","o","n","e","x","i","s","t","e","n","t","/","m","o","d","e","l">>)}}
    \cup {[Options(Str(<<"sk-key">>), Undef, Undef) EXCEPT !.modelTemperature = Num(1)]}

(***************************************************************************)
(* The handler's entry points.                                             *)
(***************************************************************************)
Init == options \in HandlerOptions /\ InitCommon

\* a mutation of the call: the body runs into fetchModel at once, as in a plain async function
CreateMessageEager ==
    /\ op = "none"
    /\ op' = "createMessage"
    /\ pc' = "fetchModel"
    /\ pending' = TRUE
    /\ call(options)
    /\ UNCHANGED <<envVars, prompt, options, models, delivered, cur, lastUsage, events, fault, raised,
                   requests, returned>>

\* createMessage(...) is called: the generator object exists, nothing has run
CreateMessage ==
    /\ op = "none"
    /\ op' = "createMessage"
    /\ pc' = "start"
    /\ UNCHANGED <<envVars, prompt, options, models, pending, delivered, cur, lastUsage, events, fault, raised,
                   requests, returned, catVars>>

\* the first next(): the body starts and runs into fetchModel's await
PullFirst ==
    /\ op = "createMessage" /\ pc = "start" /\ ~pending
    /\ pending' = TRUE
    /\ pc' = "fetchModel"
    /\ call(options)
    /\ UNCHANGED <<envVars, prompt, options, models, op, delivered, cur, lastUsage, events, fault, raised, requests, returned>>

\* completePrompt(prompt) is called and runs into fetchModel's await
CompletePrompt ==
    /\ op = "none"
    /\ op' = "completePrompt"
    /\ \E p \in Prompts : prompt' = p
    /\ pc' = "fetchModel"
    /\ pending' = TRUE
    /\ call(options)
    /\ UNCHANGED <<envVars, options, models, delivered, cur, lastUsage, events, fault, raised, requests, returned>>

\* this.client.chat.completions.create(completionParams)
create(params) == requests' = Append(requests, params)

\* a mutation of the assignment: the resolved entries are copied into the stored catalog
assignMerging(old, new) == spread(old, new)

\* this.models = <the resolved catalog>
assign(old, new) == new

\* fetchModel resumes: this.models is assigned, the model selected, the request issued
FetchModelReturns ==
    /\ pc = "fetchModel" /\ catPc = "returned"
    /\ catPc' = "idle"
    /\ IF catRaised # Undef
       THEN /\ raised' = catRaised
            /\ pc' = "failed"
            /\ pending' = FALSE
            /\ UNCHANGED <<models, requests, fault>>
       ELSE /\ models' = assign(models, catResult)
            /\ create(completionParams(options, catResult, op = "createMessage"))
            /\ pc' = "requesting"
            /\ UNCHANGED <<fault, raised, pending>>
    /\ UNCHANGED <<envVars, prompt, options, op, delivered, cur, lastUsage, events, returned,
                   httpRequests, resp, fetched, catResult, catRaised, catRef>>

\* a mutation of the request's failure: the request is issued again
RequestRejectsAndRetries ==
    /\ pc = "requesting"
    /\ Len(requests) < 3
    /\ create(requests[Len(requests)])
    /\ UNCHANGED <<envVars, prompt, options, models, op, pc, pending, delivered, cur, lastUsage, events, fault,
                   raised, returned, catVars>>

\* a mutation of the request's failure: the rejection is made readable before it is raised
RequestRejectsReadable ==
    /\ pc = "requesting"
    /\ \E e \in TransportErrors :
        /\ fault' = e
        /\ raised' = Error(makeCometAPIErrorReadable(e))
    /\ pc' = "failed"
    /\ pending' = FALSE
    /\ UNCHANGED <<envVars, prompt, options, models, op, delivered, cur, lastUsage, events, requests, returned, catVars>>

\* create() rejects outside any try block: the rejection propagates as it is
RequestRejects ==
    /\ pc = "requesting"
    /\ \E e \in TransportErrors :
        /\ fault' = e
        /\ raised' = e
    /\ pc' = "failed"
    /\ pending' = FALSE
    /\ UNCHANGED <<envVars, prompt, options, models, op, delivered, cur, lastUsage, events, requests, returned, catVars>>

\* create() resolves with the chunk source
StreamOpens ==
    /\ op = "createMessage" /\ pc = "requesting"
    /\ pc' = "loop"
    /\ UNCHANGED <<envVars, prompt, options, models, op, pending, delivered, cur, lastUsage, events, fault, raised,
                   requests, returned, catVars>>

\* catch (error) { throw new Error(makeCometAPIErrorReadable(error)) }
catch(e) ==
    /\ raised' = Error(makeCometAPIErrorReadable(e))
    /\ pc' = "failed"
    /\ pending' = FALSE

\* a mutation of the loop body: the in-band error chunk is skipped
onChunkSkippingErrors(chunk) ==
    IF chunk.kind = "error"
    THEN UNCHANGED <<pc, pending, cur, lastUsage, events, raised>>
    ELSE IF Truthy(deltaContent(chunk))
    THEN /\ events' = Append(events, TextEvent(deltaContent(chunk).v))
         /\ cur' = chunk
         /\ pc' = "yieldedText"
         /\ pending' = FALSE
         /\ UNCHANGED <<lastUsage, raised>>
    ELSE /\ lastUsage' = IF Truthy(chunk.usage) THEN chunk.usage ELSE lastUsage
         /\ UNCHANGED <<pc, pending, cur, events, raised>>

\* a mutation of the loop body: the usage is recorded only on a chunk without text
onChunkElseIfUsage(chunk) ==
    IF chunk.kind = "error"
    THEN catch(inBandError(chunk.error)) /\ UNCHANGED <<cur, lastUsage, events>>
    ELSE IF Truthy(deltaContent(chunk))
    THEN /\ events' = Append(events, TextEvent(deltaContent(chunk).v))
         /\ cur' = [chunk EXCEPT !.usage = Undef]
         /\ pc' = "yieldedText"
         /\ pending' = FALSE
         /\ UNCHANGED <<lastUsage, raised>>
    ELSE /\ lastUsage' = IF Truthy(chunk.usage) THEN chunk.usage ELSE lastUsage
         /\ UNCHANGED <<pc, pending, cur, events, raised>>

\* a mutation of the loop body: the usage event is produced as soon as a usage arrives
onChunkEagerUsage(chunk) ==
    IF chunk.kind = "error"
    THEN catch(inBandError(chunk.error)) /\ UNCHANGED <<cur, lastUsage, events>>
    ELSE IF Truthy(deltaContent(chunk))
    THEN /\ events' = Append(events, TextEvent(deltaContent(chunk).v))
         /\ cur' = chunk
         /\ pc' = "yieldedText"
         /\ pending' = FALSE
         /\ UNCHANGED <<lastUsage, raised>>
    ELSE IF Truthy(chunk.usage)
    THEN /\ events' = Append(events, UsageEvent(chunk.usage))
         /\ lastUsage' = chunk.usage
         /\ UNCHANGED <<pc, pending, cur, raised>>
    ELSE UNCHANGED <<pc, pending, cur, lastUsage, events, raised>>

\* the body of `for await (const chunk of stream)` up to its yield or its end
onChunk(chunk) ==
    IF chunk.kind = "error"
    THEN catch(inBandError(chunk.error)) /\ UNCHANGED <<cur, lastUsage, events>>
    ELSE IF Truthy(deltaContent(chunk))
    THEN /\ events' = Append(events, TextEvent(deltaContent(chunk).v))
         /\ cur' = chunk
         /\ pc' = "yieldedText"
         /\ pending' = FALSE
         /\ UNCHANGED <<lastUsage, raised>>
    ELSE /\ lastUsage' = IF Truthy(chunk.usage) THEN chunk.usage ELSE lastUsage
         /\ UNCHANGED <<pc, pending, cur, events, raised>>

\* the chunk source delivers its next chunk
NextChunk ==
    /\ op = "createMessage" /\ pc = "loop" /\ pending
    /\ Len(delivered) < MaxChunks
    /\ \E chunk \in Chunks :
        /\ delivered' = Append(delivered, chunk)
        /\ onChunk(chunk)
    /\ UNCHANGED <<envVars, prompt, options, models, op, fault, requests, returned, catVars>>

\* next() after a Text event: the body resumes behind the yield and records the usage
PullAfterText ==
    /\ op = "createMessage" /\ pc = "yieldedText" /\ ~pending
    /\ pending' = TRUE
    /\ lastUsage' = IF Truthy(cur.usage) THEN cur.usage ELSE lastUsage
    /\ pc' = "loop"
    /\ UNCHANGED <<envVars, prompt, options, models, op, delivered, cur, events, fault, raised, requests, returned, catVars>>

\* a mutation of the failure: the recorded usage is yielded before the error is raised
SourceRaisesFlushingUsage ==
    /\ op = "createMessage" /\ pc = "loop" /\ pending
    /\ \E e \in TransportErrors : fault' = e /\ catch(e)
    /\ events' = IF Truthy(lastUsage) THEN Append(events, UsageEvent(lastUsage)) ELSE events
    /\ UNCHANGED <<envVars, prompt, options, models, op, delivered, cur, lastUsage, requests, returned, catVars>>

\* the chunk source throws while it is iterated
SourceRaises ==
    /\ op = "createMessage" /\ pc = "loop" /\ pending
    /\ \E e \in TransportErrors : fault' = e /\ catch(e)
    /\ UNCHANGED <<envVars, prompt, options, models, op, delivered, cur, lastUsage, events, requests, returned, catVars>>

\* the chunk source is exhausted: the terminal usage event, if a usage was recorded
SourceEnds ==
    /\ op = "createMessage" /\ pc = "loop" /\ pending
    /\ pending' = FALSE
    /\ IF Truthy(lastUsage)
       THEN /\ events' = Append(events, UsageEvent(lastUsage))
            /\ pc' = "yieldedUsage"
       ELSE /\ pc' = "done"
            /\ UNCHANGED events
    /\ UNCHANGED <<envVars, prompt, options, models, op, delivered, cur, lastUsage, fault, raised, requests, returned, catVars>>

\* next() after the Usage event: the generator returns
PullAfterUsage ==
    /\ op = "createMessage" /\ pc = "yieldedUsage" /\ ~pending
    /\ pc' = "done"
    /\ UNCHANGED <<envVars, prompt, options, models, op, pending, delivered, cur, lastUsage, events, fault, raised,
                   requests, returned, catVars>>

\* a mutation of the return value: completion.choices[0]?.message?.content, without || ""
firstContentNoDefault(response) ==
    IF Len(response.choices) = 0 THEN Undef
    ELSE IF response.choices[1].message.t # Obj THEN Undef
    ELSE response.choices[1].message.content

\* completion.choices[0]?.message?.content || ""
firstContent(response) ==
    IF Len(response.choices) = 0 THEN Str(<<>>)
    ELSE IF response.choices[1].message.t # Obj THEN Str(<<>>)
    ELSE IF Truthy(response.choices[1].message.content)
    THEN response.choices[1].message.content
    ELSE Str(<<>>)

\* create() resolves with the single-shot response
ResponseArrives ==
    /\ op = "completePrompt" /\ pc = "requesting"
    /\ pending' = FALSE
    /\ \E response \in CompletionResponses :
        /\ delivered' = Append(delivered, response)
        /\ IF response.kind = "error"
           THEN /\ raised' = inBandError(response.error)
                /\ pc' = "failed"
                /\ UNCHANGED returned
           ELSE /\ returned' = firstContent(response)
                /\ pc' = "done"
                /\ UNCHANGED raised
    /\ UNCHANGED <<envVars, prompt, options, models, op, cur, lastUsage, events, fault, requests, catVars>>

HandlerFetchRejects == pc = "fetchModel" /\ FetchRejects

HandlerJsonSettles == pc = "fetchModel" /\ JsonSettles

Next ==
    \/ CreateMessage
    \/ PullFirst
    \/ CompletePrompt
    \/ HandlerFetchRejects
    \/ HandlerFetchResponds
    \/ HandlerJsonSettles
    \/ FetchModelReturns
    \/ RequestRejects
    \/ StreamOpens
    \/ NextChunk
    \/ PullAfterText
    \/ SourceRaises
    \/ SourceEnds
    \/ PullAfterUsage
    \/ ResponseArrives

Spec == Init /\ [][Next]_vars


(***************************************************************************)
(* Properties of the stream normalizer.                                    *)
(***************************************************************************)
\* the chunk carries a non-empty text delta
HasText(chunk) ==
    /\ chunk.kind = "data" /\ Len(chunk.choices) > 0
    /\ chunk.choices[1].delta.t = Obj
    /\ chunk.choices[1].delta.content.t = "string"
    /\ chunk.choices[1].delta.content.v # <<>>

\* the chunk carries a usage payload
HasUsage(chunk) == chunk.kind = "data" /\ chunk.usage.t = Obj

IsErrorChunk(chunk) == chunk.kind = "error"

\* the Text events owed to a chunk sequence, in arrival order
RECURSIVE TextsOf(_)
TextsOf(chunks) ==
    IF chunks = <<>> THEN <<>>
    ELSE (IF HasText(Head(chunks))
          THEN <<[type |-> "text", text |-> Head(chunks).choices[1].delta.content.v]>>
          ELSE <<>>) \o TextsOf(Tail(chunks))

UsageBearing(chunks) == {i \in 1..Len(chunks) : HasUsage(chunks[i])}

LastUsageOf(chunks) == chunks[CHOOSE i \in UsageBearing(chunks) : \A j \in UsageBearing(chunks) : j <= i].usage

NumberOr0(x) == IF x.t = "number" THEN x.v ELSE 0

Completed == op = "createMessage" /\ pc \in {"yieldedUsage", "done"}

\* C1: a stream without in-band error chunk whose source does not raise yields one
\* Text event per chunk with a non-empty text delta, in arrival order, then exactly one
\* Usage event built from the last usage-bearing chunk (inputTokens = prompt_tokens or
\* 0, outputTokens = completion_tokens or 0) if some chunk carried a usage, and no
\* Usage event otherwise; a chunk with both a text delta and a usage counts for both.
C1_StreamYieldsTextsThenUsage ==
    Completed =>
        LET texts == TextsOf(delivered)
        IN  IF UsageBearing(delivered) = {}
            THEN events = texts
            ELSE /\ Len(events) = Len(texts) + 1
                 /\ SubSeq(events, 1, Len(texts)) = texts
                 /\ events[Len(events)].type = "usage"
                 /\ events[Len(events)].inputTokens = NumberOr0(LastUsageOf(delivered).prompt_tokens)
                 /\ events[Len(events)].outputTokens = NumberOr0(LastUsageOf(delivered).completion_tokens)

\* the spec's example: [A, B with usage {10, 20}] gives Text A, Text B, Usage{10, 20, cost 0}
C1_Witness ==
    /\ op = "createMessage" /\ pc = "done"
    /\ delivered = <<DataChunk(Delta(Str(<<"A">>)), Undef), DataChunk(Delta(Str(<<"B">>)), U1)>>
    /\ Len(events) = 3
    /\ events[2] = [type |-> "text", text |-> <<"B">>]
    /\ events[3].type = "usage" /\ events[3].inputTokens = 10 /\ events[3].outputTokens = 20
    /\ events[3].totalCost = 0

UsageIsLast == \A i \in 1..Len(events) : events[i].type = "usage" => i = Len(events)

EndedOrFailed == raised # Undef \/ (events # <<>> /\ events[Len(events)].type = "usage")

\* C2: in every run of createMessage at most one Usage event is produced, it is the
\* last event produced, and no event follows a Usage event or a raised error.
C2_UsageLastNothingAfter == [](UsageIsLast) /\ [][EndedOrFailed => events' = events]_vars

C2_Witness ==
    /\ op = "createMessage" /\ pc = "done"
    /\ Len(events) = 3 /\ events[1].type = "text" /\ events[3].type = "usage"
    /\ Cardinality(UsageBearing(delivered)) = 2

\* the position of the first in-band error chunk delivered, 0 when there is none
FirstError(chunks) ==
    IF \E i \in 1..Len(chunks) : IsErrorChunk(chunks[i])
    THEN CHOOSE i \in 1..Len(chunks) : IsErrorChunk(chunks[i]) /\ \A j \in 1..(i - 1) : ~IsErrorChunk(chunks[j])
    ELSE 0

\* C3: an in-band error chunk at any position makes createMessage raise an error whose
\* message contains the provider's code and message text; the loop stops at that chunk
\* and no event follows: the events are the Text events of the chunks before it, with no
\* Usage event even when a usage was recorded, and none at all when it came first.
C3_InBandErrorStopsStream ==
    FirstError(delivered) # 0 =>
        LET k == FirstError(delivered)
            error == delivered[k].error
        IN  /\ k = Len(delivered)
            /\ pc = "failed"
            /\ raised.t = "error"
            /\ includes(raised.message.v, <<ToString(error.code.v)>>)
            /\ error.message.t = "string" => includes(raised.message.v, error.message.v)
            /\ events = TextsOf(SubSeq(delivered, 1, k - 1))
            /\ k = 1 => events = <<>>

C3_Witness ==
    /\ pc = "failed" /\ Len(delivered) = 3
    /\ HasText(delivered[1]) /\ HasUsage(delivered[2]) /\ IsErrorChunk(delivered[3])
    /\ Truthy(lastUsage)
    /\ events = <<[type |-> "text", text |-> delivered[1].choices[1].delta.content.v]>>
    /\ raised.message.v = <<"CometAPI Error: ", "CometAPI Error ", "500", ": ", "API Error">>

RateLimitCodes == {Num(429), Num(418)}

\* the failure comes from an in-band error chunk or a transport error carrying 429 or 418
RateLimited ==
    \/ FirstError(delivered) # 0 /\ delivered[FirstError(delivered)].error.code \in RateLimitCodes
    \/ fault.t = "error" /\ fault.code \in RateLimitCodes

HasRetryHint(e) ==
    /\ e.t = "error"
    /\ e.message.t = "string"
    /\ \/ /\ Len(e.message.v) = 3
          /\ e.message.v[1] = "Rate limit exceeded, try again in " /\ e.message.v[3] = "."
       \/ /\ Len(e.message.v) >= 1
          /\ e.message.v[1] = "Rate limit exceeded, try again later.\n"

\* C4: every error createMessage raises for an in-band error chunk or a transport error
\* carrying code 429 or 418 has a message with a retry hint (the parsed wait or the
\* generic text); the error is raised and the request is not retried.
C4_RateLimitErrorsCarryRetryHint ==
    (op = "createMessage" /\ RateLimited) =>
        /\ pc = "failed"
        /\ HasRetryHint(raised)
        /\ Len(requests) = 1

\* C5: every transport failure of a streaming request, raised by the request call or
\* during iteration, reaches the caller with the transform's output as its message.
C5_TransportErrorsAreMadeReadable ==
    (op = "createMessage" /\ fault # Undef) =>
        /\ pc = "failed"
        /\ raised.t = "error"
        /\ raised.message = Str(makeCometAPIErrorReadable(fault))

\* C6: no retry: createMessage and completePrompt call the request primitive at most
\* once, and exactly once when the request or the stream has failed or the call has
\* come to its end.
C6_NoRetry ==
    /\ Len(requests) <= 1
    /\ pc \in {"failed", "done", "loop", "yieldedText", "yieldedUsage"} => Len(requests) = 1

C6_Witness ==
    /\ op = "completePrompt" /\ pc = "failed" /\ fault # Undef /\ raised = fault
    /\ Len(requests) = 1


(***************************************************************************)
(* Properties of the catalog resolver.                                     *)
(***************************************************************************)
NoCredential == ~(optField(options, "cometApiKey").t = "string" /\ optField(options, "cometApiKey").v # <<>>)

\* C7: without a credential getCometAPIModels returns exactly the static table (same
\* keys and values) and issues no HTTP request, for every base URL.
C7_NoKeyReturnsStaticWithoutRequest ==
    NoCredential =>
        /\ httpRequests = <<>>
        /\ catPc \in {"idle", "returned"}
        /\ catPc = "returned" => (catResult = cometApiModels /\ catRaised = Undef)

C7_Witness ==
    /\ catPc = "returned" /\ options.t = Obj
    /\ options.cometApiKey = Str(<<>>)
    /\ options.cometApiBaseUrl = Str(<<"https://proxy.example/v1">>)
    /\ catResult = cometApiModels /\ httpRequests = <<>>

WellTypedDescriptor(e) ==
    /\ e.id.t = "string"
    /\ e.context_length.t \in {"undefined", "number"}
    /\ e.max_tokens.t \in {"undefined", "number"}
    /\ e.pricing.t = Obj =>
        /\ e.pricing.prompt.t # "number"
        /\ e.pricing.completion.t # "number"

\* the fetch failed: rejected, non-2xx, body not JSON, or body failing the schema
FetchFailed ==
    \/ fetched \in RejectKinds
    \/ resp # NoResponse /\ resp.status \notin 200..299
    \/ resp # NoResponse /\ ~resp.body.json
    \/ resp # NoResponse /\ resp.body.data.t # "array"
    \/ resp # NoResponse /\ resp.body.data.t = "array"
        /\ \E i \in 1..Len(resp.body.data.v) : ~WellTypedDescriptor(resp.body.data.v[i])

\* C8: getCometAPIModels never raises: for every outcome of the remote fetch (network
\* error, timeout, non-2xx status, body that is not JSON, body failing the schema) it
\* returns a catalog equal to the static table.
C8_FetchFailureDegradesToStatic ==
    /\ catRaised = Undef
    /\ (catPc = "returned" /\ FetchFailed) => catResult = cometApiModels

C8_Witness ==
    /\ catPc = "returned" /\ resp.status = 200 /\ resp.body.json
    /\ resp.body.data.t = "array" /\ Len(resp.body.data.v) = 2
    /\ resp.body.data.v[2].id.t = "undefined"
    /\ catResult = cometApiModels /\ catRaised = Undef

FilteredPrefixes ==
    { <<"t","t","s">>, <<"m","j","_">>, <<"v","e","o">>, <<"r","u","n","w","a","y">>,
      <<"s","u","n","o">>, <<"k","l","i","n","g","_">> }

FilteredSubstrings ==
    { <<"d","a","l","l","-","e">>, <<"d","a","l","l","e">>,
      <<"m","i","d","j","o","u","r","n","e","y">>,
      <<"s","t","a","b","l","e","-","d","i","f","f","u","s","i","o","n">>,
      <<"s","d","-">>, <<"f","l","u","x","-">>,
      <<"p","l","a","y","g","r","o","u","n","d","-","v">>,
      <<"i","d","e","o","g","r","a","m">>, <<"r","e","c","r","a","f","t">>,
      <<"b","l","a","c","k","-","f","o","r","e","s","t","-","l","a","b","s">> }

\* the identifier, lower-cased, starts with a filtered prefix or contains a filtered substring
MatchesMediaFilter(id) ==
    LET low == toLowerCase(id)
    IN  \/ \E p \in FilteredPrefixes : Len(p) <= Len(low) /\ \A i \in 1..Len(p) : low[i] = p[i]
        \/ \E p \in FilteredSubstrings : \E k \in 0..(Len(low) - Len(p)) :
                \A i \in 1..Len(p) : low[k + i] = p[i]

\* the identifiers the remote listed, when the response was accepted
Listing == IF fetched = "ok" THEN resp.body.data.v ELSE <<>>

\* C9: the resolved catalog never contains an identifier that matches the media-type
\* filter, compared case-insensitively, even if the remote listed it.
C9_FilteredIdsNeverInCatalog ==
    catPc = "returned" => \A id \in DOMAIN catResult : ~MatchesMediaFilter(id)

C9_Witness ==
    /\ catPc = "returned" /\ fetched = "ok" /\ Len(Listing) = 2
    /\ Listing[1].id.v = <<"D","A","L","L","-","E","-","3">>
    /\ Listing[2].id.v = <<"m","y","-","t","t","s">>
    /\ DOMAIN catResult = DOMAIN cometApiModels \cup {<<"m","y","-","t","t","s">>}

\* the last descriptor of the listing with this identifier
LastListed(id) ==
    Listing[CHOOSE i \in 1..Len(Listing) :
                /\ Listing[i].id.v = id
                /\ \A j \in (i + 1)..Len(Listing) : Listing[j].id.v # id]

\* C10: after a successful, schema-valid fetch, an unfiltered remote descriptor whose
\* id is a static identifier replaces the static entry as a whole: the catalog's entry is
\* the entry synthesized from the remote descriptor, without the static maxTokens and
\* with the remote pricing, even when that is absent.
C10_RemoteEntryReplacesStatic ==
    (catPc = "returned" /\ fetched = "ok") =>
        \A i \in 1..Len(Listing) :
            LET id == Listing[i].id.v
            IN  (id \in DOMAIN cometApiModels /\ ~MatchesMediaFilter(id)) =>
                    /\ catResult[id] = synthesize(LastListed(id))
                    /\ "maxTokens" \notin DOMAIN catResult[id]
                    /\ LastListed(id).pricing.t # Obj =>
                        catResult[id].inputPrice = Undef /\ catResult[id].outputPrice = Undef

C10_Witness ==
    /\ catPc = "returned" /\ fetched = "ok"
    /\ Listing = <<Desc(cometApiDefaultModelId, NoPricing)>>
    /\ catResult[cometApiDefaultModelId].inputPrice = Undef
    /\ catResult[cometApiDefaultModelId] # cometApiModels[cometApiDefaultModelId]
    /\ catResult[HaikuId] = cometApiModels[HaikuId]

(***************************************************************************)
(* The shape of catalog entries, and who owns a returned catalog.          *)
(***************************************************************************)
\* the text of a JavaScript string in this model: a sequence of tokens
IsText(d) == DOMAIN d = 1..Len(d) /\ \A i \in 1..Len(d) : d[i] \in STRING

\* the ModelInfo shape of the data model, field by field
ContextWindowOk(e) == "contextWindow" \in DOMAIN e /\ e.contextWindow \in Nat /\ e.contextWindow > 0
MaxTokensOk(e) == "maxTokens" \in DOMAIN e /\ e.maxTokens \in Nat
FlagsOk(e) ==
    /\ "supportsImages" \in DOMAIN e /\ e.supportsImages \in BOOLEAN
    /\ "supportsPromptCache" \in DOMAIN e /\ e.supportsPromptCache = FALSE
DescriptionOk(e) == "description" \in DOMAIN e /\ IsText(e.description)

\* C11: every entry of every catalog getCometAPIModels returns, static or synthesized
\* from a remote descriptor, has the ModelInfo shape: contextWindow an integer > 0,
\* maxTokens present and an integer >= 0, supportsImages a boolean, supportsPromptCache
\* false, description a string.
C11_EveryEntryHasModelInfoShape ==
    (catPc = "returned" /\ catRaised = Undef) =>
        \A id \in DOMAIN catResult :
            /\ ContextWindowOk(catResult[id])
            /\ MaxTokensOk(catResult[id])
            /\ FlagsOk(catResult[id])
            /\ DescriptionOk(catResult[id])

\* what does hold of every entry: all of the shape but maxTokens, which only the entries
\* taken from the static table carry
C11_ShapeButMaxTokens ==
    (catPc = "returned" /\ catRaised = Undef) =>
        \A id \in DOMAIN catResult :
            /\ ContextWindowOk(catResult[id])
            /\ FlagsOk(catResult[id])
            /\ DescriptionOk(catResult[id])
            /\ MaxTokensOk(catResult[id]) <=>
                (id \in DOMAIN cometApiModels /\ catResult[id] = cometApiModels[id])

\* an entry and the keys a caller writes into the mapping it was handed
CallerEntry ==
    [maxTokens |-> 1, contextWindow |-> 1, supportsImages |-> FALSE, supportsPromptCache |-> FALSE,
     inputPrice |-> Undef, outputPrice |-> Undef, description |-> <<"written by the caller">>]

CallerIds == {cometApiDefaultModelId, <<"m","i","n","e">>}

\* the caller assigns returned[id] = entry: the object written is the one that was returned,
\* which is the exported table itself when `return cometApiModels` handed it out
CallerWrites ==
    /\ op = "getCometAPIModels" /\ catPc = "returned" /\ catRaised = Undef
    /\ \E id \in CallerIds :
        /\ catResult' = Put(catResult, id, CallerEntry)
        /\ staticTable' = IF catRef = "cometApiModels" THEN Put(staticTable, id, CallerEntry)
                          ELSE staticTable
    /\ UNCHANGED <<options, hVars, calls, catPc, httpRequests, resp, fetched, catRaised, catRef>>

\* the caller is done with one resolution and will resolve again
CallsAgain ==
    /\ op = "getCometAPIModels" /\ catPc = "returned"
    /\ Len(httpRequests) < MaxCalls
    /\ op' = "none"
    /\ catPc' = "idle"
    /\ UNCHANGED <<options, models, pc, pending, delivered, cur, lastUsage, events, fault, raised,
                   requests, returned, prompt, envVars,
                   httpRequests, resp, fetched, catResult, catRaised, catRef>>

NextOwner ==
    \/ GetCometAPIModels
    \/ FetchRejects
    \/ HandlerFetchResponds
    \/ JsonSettles
    \/ CallerWrites
    \/ CallsAgain

SpecOwner == InitCatalog /\ [][NextOwner]_vars

\* C12: the catalog getCometAPIModels returns is a snapshot owned by the caller: on every
\* path the returned mapping is not the shared static table object, so writing to the
\* returned mapping changes neither the static table nor what a later resolution returns.
C12_ReturnedCatalogIsSnapshot ==
    /\ (catPc = "returned" /\ catRaised = Undef) => catRef # "cometApiModels"
    /\ staticTable = cometApiModels

\* the write through the alias alone: the static table is changed by a caller
C12_StaticTableNeverChanges == staticTable = cometApiModels

\* only the merged catalog of a successful fetch is a fresh object
C12_OnlySuccessIsFresh ==
    (catPc = "returned" /\ catRaised = Undef) => (catRef = "mergedModels" <=> fetched = "ok")

(***************************************************************************)
(* Model selection and request construction.                               *)
(***************************************************************************)
\* the configured identifier is not a key of the last-resolved catalog
UnknownId == ~Nullish(options.cometApiModelId) /\ options.cometApiModelId.v \notin DOMAIN models

\* fetchModel has returned and the request was built from its result
Selected == pc \in {"requesting", "loop", "yieldedText", "yieldedUsage", "done"}

\* C13: model selection never raises for an unknown identifier: getModel returns the
\* caller's literal identifier as id with the static default entry as info, the request
\* carries that literal identifier as model, and with no identifier configured the
\* default identifier is the id.
C13_UnknownIdKeepsLiteralId ==
    /\ UnknownId =>
        /\ getModel(options, models).id = options.cometApiModelId.v
        /\ getModel(options, models).info = cometApiModels[cometApiDefaultModelId]
    /\ Nullish(options.cometApiModelId) => getModel(options, models).id = cometApiDefaultModelId
    /\ Selected => (raised = Undef /\ Len(requests) = 1)
    /\ \A i \in 1..Len(requests) :
        requests[i].model = IF Nullish(options.cometApiModelId) THEN cometApiDefaultModelId
                            ELSE options.cometApiModelId.v

C13_Witness ==
    /\ pc = "requesting" /\ fetched = "ok"
    /\ UnknownId
    /\ cometApiDefaultModelId \in DOMAIN models
    /\ models[cometApiDefaultModelId] # cometApiModels[cometApiDefaultModelId]
    /\ requests = <<completionParams(options, models, op = "createMessage")>>
    /\ requests[1].model = <<"n","o","n","e","x","i","s","t","e","n","t","/","m","o","d","e","l">>

\* the resolved model's maxTokens is strictly positive
PositiveMaxTokens == Truthy(getModel(options, models).maxTokens) /\ getModel(options, models).maxTokens.v > 0

\* C14: in every completion request, of createMessage and of completePrompt alike,
\* max_tokens is included only if the resolved model's maxTokens is strictly positive
\* (omitted when it is 0 or absent), and temperature is always included.
C14_MaxTokensOnlyIfPositive ==
    \A i \in 1..Len(requests) :
        /\ "max_tokens" \in DOMAIN requests[i] => PositiveMaxTokens
        /\ "temperature" \in DOMAIN requests[i]

\* the streaming request alone follows the rule, both ways
C14_StreamRequestFollowsRule ==
    \A i \in 1..Len(requests) :
        requests[i].stream =>
            /\ "max_tokens" \in DOMAIN requests[i] <=> PositiveMaxTokens
            /\ "max_tokens" \in DOMAIN requests[i] => requests[i].max_tokens = getModel(options, models).maxTokens
            /\ "temperature" \in DOMAIN requests[i]

\* the single-shot request always has the max_tokens key and the temperature key
C14_PromptRequestAlwaysHasKey ==
    \A i \in 1..Len(requests) :
        ~requests[i].stream =>
            /\ "max_tokens" \in DOMAIN requests[i]
            /\ requests[i].max_tokens = getModel(options, models).maxTokens
            /\ "temperature" \in DOMAIN requests[i]

\* a streaming request without max_tokens is sent, and one with it
C14_StreamOmits ==
    /\ Len(requests) = 1 /\ requests[1].stream
    /\ "max_tokens" \notin DOMAIN requests[1]
    /\ requests[1].temperature = Num(1)

(***************************************************************************)
(* The single-shot path: completePrompt.                                   *)
(***************************************************************************)
\* completePrompt has settled on a response that create() resolved with
PromptAnswered ==
    op = "completePrompt" /\ pc \in {"done", "failed"} /\ fault = Undef /\ Len(delivered) = 1

\* the first choice of a response has a non-empty text content
HasFirstText(response) ==
    /\ Len(response.choices) > 0
    /\ response.choices[1].message.t = Obj
    /\ response.choices[1].message.content.t = "string"
    /\ response.choices[1].message.content.v # <<>>

\* C15: completePrompt on a response that resolved: with an in-band error field it raises
\* 'CometAPI Error <code>: <message>' and returns nothing; otherwise it returns the first
\* choice's content, or the empty string when there is no first choice or the content is
\* absent or empty.
C15_CompletePromptResult ==
    PromptAnswered =>
        IF delivered[1].kind = "error"
        THEN /\ pc = "failed"
             /\ returned = Undef
             /\ raised.t = "error"
             /\ raised.message = Str(<<"CometAPI Error ">> \o Template(delivered[1].error.code) \o <<": ">>
                                     \o Template(delivered[1].error.message))
        ELSE /\ pc = "done"
             /\ raised = Undef
             /\ returned = IF HasFirstText(delivered[1])
                           THEN delivered[1].choices[1].message.content
                           ELSE Str(<<>>)

C15_Witness ==
    /\ PromptAnswered /\ pc = "done"
    /\ delivered[1].choices = <<Choice(Null)>>
    /\ returned = Str(<<>>)

\* the in-band error of a single-shot response is raised with its code and message
C15_WitnessError ==
    /\ PromptAnswered /\ pc = "failed"
    /\ raised.message = Str(<<"CometAPI Error ", "500", ": ", "API Error">>)

\* the request completePrompt sends carries the prompt as it was given
PromptSentAsGiven ==
    /\ Len(requests) = 1
    /\ requests[1].messages = <<[role |-> "user", content |-> prompt]>>

\* C16: for every prompt, the empty string and null included, when the client rejects the
\* single-shot request completePrompt raises that same rejection: not wrapped, not made
\* readable, and the prompt is sent as given, without validation.
C16_RejectionPropagatesUnchanged ==
    op = "completePrompt" =>
        /\ pc \in {"requesting", "done", "failed"} => PromptSentAsGiven
        /\ fault # Undef => (pc = "failed" /\ raised = fault /\ returned = Undef /\ delivered = <<>>)

C16_Witness ==
    /\ op = "completePrompt" /\ pc = "failed"
    /\ prompt = Null
    /\ requests[1].messages[1].content = Null
    /\ fault = ApiError(Num(429), Str(<<"Rate limited">>), Metadata(Str(<<"{error:{details:[{retryDelay:30s}]}}">>)))
    /\ raised = fault

\* the same with the empty prompt
C16_WitnessEmpty ==
    /\ op = "completePrompt" /\ pc = "failed"
    /\ prompt = Str(<<>>)
    /\ fault # Undef /\ raised = fault

(***************************************************************************)
(* The cost of a stream. Costs are in tenths: 5 is 0.5, 2 is 0.2.          *)
(***************************************************************************)
\* a cost field of the usage, 0 when it is absent
CostOr0(x) == IF x.t = "number" THEN x.v ELSE 0

\* C17: the terminal Usage event's totalCost is the upstream inference cost (0 when
\* absent) plus the cost (0 when absent), for every combination of present and absent
\* cost fields: 0 with both absent, 0.7 for cost 0.5 and upstream cost 0.2.
C17_TotalCostIsSumOfCosts ==
    (Completed /\ UsageBearing(delivered) # {}) =>
        LET u == LastUsageOf(delivered)
            e == events[Len(events)]
        IN  /\ e.type = "usage"
            /\ e.totalCost = CostOr0(u.upstream_inference_cost) + CostOr0(u.cost)
            /\ (u.cost = Undef /\ u.upstream_inference_cost = Undef) => e.totalCost = 0
            /\ (u.cost = Num(5) /\ u.upstream_inference_cost = Num(2)) => e.totalCost = 7

C17_Witness ==
    /\ Completed /\ UsageBearing(delivered) # {}
    /\ LastUsageOf(delivered) = U2
    /\ events[Len(events)].totalCost = 7

\* the other combinations: only the cost, only the upstream cost, neither
C17_WitnessCostOnly ==
    Completed /\ UsageBearing(delivered) # {} /\ LastUsageOf(delivered) = U3 /\ events[Len(events)].totalCost = 5

C17_WitnessUpstreamOnly ==
    Completed /\ UsageBearing(delivered) # {} /\ LastUsageOf(delivered) = U4 /\ events[Len(events)].totalCost = 2

C17_WitnessNeither ==
    Completed /\ UsageBearing(delivered) # {} /\ LastUsageOf(delivered) = U1 /\ events[Len(events)].totalCost = 0

(***************************************************************************)
(* What the caller holds when a stream fails.                              *)
(***************************************************************************)
StreamFailed == op = "createMessage" /\ pc = "failed"

\* C18: when the chunk source raises or delivers an in-band error after k Text events,
\* the caller has exactly those k Text events in order, then exactly one raised error,
\* and the sequence ends: nothing emitted is retracted and a failed stream has no Usage
\* event.
C18_PartialDeliveryOnFailure ==
    /\ [](StreamFailed =>
            /\ events = TextsOf(delivered)
            /\ \A i \in 1..Len(events) : events[i].type = "text"
            /\ raised # Undef)
    /\ [][op = "createMessage" =>
            (Len(events') >= Len(events) /\ SubSeq(events', 1, Len(events)) = events)]_vars
    /\ [][raised # Undef => raised' = raised]_vars
    /\ [][StreamFailed => (events' = events /\ pc' = pc)]_vars

\* the source raises after two texts and a recorded usage
C18_Witness ==
    /\ StreamFailed /\ fault # Undef
    /\ Len(delivered) = 2 /\ Len(events) = 2
    /\ Truthy(lastUsage)
    /\ raised.t = "error" /\ raised # fault

\* an in-band error chunk after one text and a recorded usage
C18_WitnessInBand ==
    /\ StreamFailed /\ fault = Undef
    /\ Len(delivered) = 3 /\ IsErrorChunk(delivered[3])
    /\ Len(events) = 1
    /\ Truthy(lastUsage)

(***************************************************************************)
(* The transform on its own: every caught value is made readable.          *)
(***************************************************************************)
NestedErrors ==
    {Undef, Null, [t |-> Obj, metadata |-> Undef], Metadata(Undef), Metadata(Str(<<"<html>">>))}
    \cup {Metadata(Str(<<raw>>)) : raw \in DOMAIN ParsedJson}

CaughtValues ==
    {Undef, Null, Str(<<"socket hang up">>), Str(<<>>), Num(429)}
    \cup {ApiError(code, message, error) :
            code \in {Undef, Num(429), Num(418), Num(500)},
            message \in {Undef, Str(<<>>), Str(<<"Rate limited">>)},
            error \in NestedErrors}

InitTransform ==
    /\ options = Options(Str(<<"sk-key">>), Undef, Undef)
    /\ fault \in CaughtValues
    /\ InitRest

\* catch (error) { throw new Error(makeCometAPIErrorReadable(error)) } on the caught value
Transform ==
    /\ op = "none"
    /\ op' = "makeCometAPIErrorReadable"
    /\ catch(fault)
    /\ UNCHANGED <<envVars, prompt, options, models, delivered, cur, lastUsage, events, fault,
                   requests, returned, catVars>>

SpecTransform == InitTransform /\ [][Transform]_vars

Transformed == op = "makeCometAPIErrorReadable" /\ pc = "failed"

\* the carried code of a caught value is 429 or 418
CarriesRateLimitCode(e) == e.t = "error" /\ e.code \in {Num(429), Num(418)}

\* the original message of a caught value: its message, or the value as text
OriginalMessage(e) ==
    IF e.t = "error" /\ e.message.t = "string" /\ e.message.v # <<>> THEN e.message.v ELSE String(e)

\* the details list of the raw JSON payload nested in a caught value, <<>> when the value
\* has no nested payload, the payload is not parsable JSON, or it has no details list
DetailsOf(e) ==
    IF e.t # "error" THEN <<>>
    ELSE IF e.error.t # Obj THEN <<>>
    ELSE IF e.error.metadata.t # Obj THEN <<>>
    ELSE IF e.error.metadata.raw.t # "string" THEN <<>>
    ELSE IF e.error.metadata.raw.v[1] \notin DOMAIN ParsedJson THEN <<>>
    ELSE LET json == ParsedJson[e.error.metadata.raw.v[1]]
         IN  IF json.t # Obj THEN <<>>
             ELSE IF json.error.t # Obj THEN <<>>
             ELSE IF json.error.details.t # "array" THEN <<>>
             ELSE json.error.details.v

\* the positions of the details that carry a non-empty retryDelay
WithDelay(e) ==
    {i \in 1..Len(DetailsOf(e)) :
        DetailsOf(e)[i].retryDelay.t = "string" /\ DetailsOf(e)[i].retryDelay.v # <<>>}

FirstDelay(e) == DetailsOf(e)[CHOOSE i \in WithDelay(e) : \A j \in WithDelay(e) : i <= j].retryDelay.v

\* C19: the transform never raises, whatever was caught (null, a string, an error without
\* nested payload, a raw payload that is not JSON or has no details list). Its result is
\* 'CometAPI Error: <message>' when the code is neither 429 nor 418, 'Rate limit exceeded,
\* try again in <delay>.' when the code is 429 or 418 and the raw JSON payload yields a
\* non-empty retryDelay (the first one), and otherwise 'Rate limit exceeded, try again
\* later.' followed by the original message.
C19_TransformIsTotal ==
    Transformed =>
        /\ raised.t = "error"
        /\ raised.message =
            Str(IF ~CarriesRateLimitCode(fault)
                THEN <<"CometAPI Error: ">> \o OriginalMessage(fault)
                ELSE IF WithDelay(fault) # {}
                THEN <<"Rate limit exceeded, try again in ">> \o FirstDelay(fault) \o <<".">>
                ELSE <<"Rate limit exceeded, try again later.\n">> \o OriginalMessage(fault))

\* the first detail has no retryDelay, the second one's is taken
C19_Witness ==
    /\ Transformed
    /\ fault = ApiError(Num(418), Str(<<>>), Metadata(Str(<<"{error:{details:[{},{retryDelay:7s}]}}">>)))
    /\ raised.message = Str(<<"Rate limit exceeded, try again in ", "7s", ".">>)

\* a rate limit whose raw payload is not JSON: the generic text and the original message
C19_WitnessUnparsable ==
    /\ Transformed
    /\ fault = ApiError(Num(429), Str(<<"Rate limited">>), Metadata(Str(<<"<html>">>)))
    /\ raised.message = Str(<<"Rate limit exceeded, try again later.\n", "Rate limited">>)

\* null was caught
C19_WitnessNull ==
    Transformed /\ fault = Null /\ raised.message = Str(<<"CometAPI Error: ", "null">>)

(***************************************************************************)
(* Concurrent calls on one handler: each caller runs fetchModel, directly  *)
(* or as the first step of createMessage or completePrompt.                *)
(***************************************************************************)
\* getCometAPIModels(options) as a function of what its fetch came to: the catalog it
\* resolves with (it keeps no state between its awaits but locals)
getCometAPIModels(o, outcome) ==
    IF ~Truthy(optField(o, "cometApiKey")) THEN staticTable
    ELSE IF outcome.rejected THEN staticTable
    ELSE IF ~ok(outcome.response) THEN staticTable
    ELSE IF ~outcome.response.body.json THEN staticTable
    ELSE IF ~safeParseSuccess(outcome.response.body) THEN staticTable
    ELSE spread(staticTable, collect(outcome.response.body.data.v, 1, <<>>))

Listed(id) == [status |-> 200, body |-> Json(Arr(<<Desc(id, NoPricing)>>))]

\* what the fetches of concurrent resolutions come to
Outcomes ==
    {[rejected |-> TRUE, response |-> NoResponse]}
    \cup {[rejected |-> FALSE, response |-> r] :
            r \in {Listed(<<"g","p","t","-","4","o">>),
                   Listed(<<"G","e","m","i","n","i","-","P","r","o">>),
                   Listed(cometApiDefaultModelId)}}

EntryPoints == {"fetchModel", "createMessage", "completePrompt"}

InitConcurrent ==
    /\ options \in {Options(Str(<<"sk-key">>), Undef, m) :
                        m \in {Undef, Str(<<"g","p","t","-","4","o">>)}}
    /\ InitCommon

\* the callers that have entered fetchModel, and those whose resolution has settled
Begun == {c \in Callers : calls[c].pc # "idle"}
Settled == {c \in Callers : calls[c].pc \in {"resolved", "returned"}}

\* a caller enters fetchModel and is suspended at `await getCometAPIModels(this.options)`
FetchModelCalled ==
    \E c \in Callers, entry \in EntryPoints :
        /\ calls[c].pc = "idle"
        /\ calls' = [calls EXCEPT ![c] = [@ EXCEPT !.entry = entry, !.pc = "awaiting",
                                                   !.started = 1 + Cardinality(Begun)]]
        /\ UNCHANGED <<options, hVars, catVars, staticTable>>

\* the resolution a caller awaits finishes with its catalog
CatalogResolved ==
    \E c \in Callers, outcome \in Outcomes :
        /\ calls[c].pc = "awaiting"
        /\ calls' = [calls EXCEPT ![c] = [@ EXCEPT !.pc = "resolved",
                                                   !.settled = 1 + Cardinality(Settled),
                                                   !.result = getCometAPIModels(options, outcome)]]
        /\ UNCHANGED <<options, hVars, catVars, staticTable>>

\* a mutation of the resumption: the model is selected before the catalog is assigned
FetchModelResumesSelectingFirst ==
    \E c \in Callers :
        /\ calls[c].pc = "resolved"
        /\ \A d \in Callers : calls[d].pc = "resolved" => calls[c].settled <= calls[d].settled
        /\ models' = assign(models, calls[c].result)
        /\ calls' = [calls EXCEPT ![c] = [@ EXCEPT !.pc = "returned",
                                                   !.model = getModel(options, models)]]
        /\ UNCHANGED <<options, op, pc, pending, delivered, cur, lastUsage, events, fault, raised,
                       requests, returned, prompt, catVars, staticTable>>

\* the caller resumes: this.models = <result>; return this.getModel(). The continuations
\* of the awaits run in the order in which the awaited resolutions settled.
FetchModelResumes ==
    \E c \in Callers :
        /\ calls[c].pc = "resolved"
        /\ \A d \in Callers : calls[d].pc = "resolved" => calls[c].settled <= calls[d].settled
        /\ models' = assign(models, calls[c].result)
        /\ calls' = [calls EXCEPT ![c] = [@ EXCEPT !.pc = "returned",
                                                   !.model = getModel(options, models')]]
        /\ UNCHANGED <<options, op, pc, pending, delivered, cur, lastUsage, events, fault, raised,
                       requests, returned, prompt, catVars, staticTable>>

NextConcurrent == FetchModelCalled \/ CatalogResolved \/ FetchModelResumes

SpecConcurrent == InitConcurrent /\ [][NextConcurrent]_vars

\* the catalogs of the resolutions that have finished and been stored
StoredResults == {calls[c].result : c \in {d \in Callers : calls[d].pc = "returned"}}

\* C20: under every interleaving of concurrent fetchModel / createMessage / completePrompt
\* calls on one handler, the stored catalog is at every moment its initial value or the
\* complete result of one finished resolution: never partly written, never a mixture of
\* the entries of two resolutions.
C20_StoredCatalogIsOneResult ==
    /\ models = <<>> \/ models \in StoredResults
    /\ (\E c \in Callers : calls[c].pc = "returned") => models \in StoredResults

\* two resolutions with different listings have both been stored, the one called first last
C20_Witness ==
    /\ calls[1].pc = "returned" /\ calls[2].pc = "returned"
    /\ calls[1].entry = "createMessage" /\ calls[2].entry = "completePrompt"
    /\ <<"g","p","t","-","4","o">> \in DOMAIN calls[1].result
    /\ <<"G","e","m","i","n","i","-","P","r","o">> \in DOMAIN calls[2].result
    /\ models = calls[2].result
    /\ models # calls[1].result

\* every caller has returned from fetchModel
AllReturned == \A c \in Callers : calls[c].pc = "returned"

\* the caller whose resolution settled last
LastSettled == CHOOSE c \in Settled : \A d \in Settled : calls[d].settled <= calls[c].settled

\* C21: under every interleaving of concurrent fetchModel calls on one handler, the model
\* (id, info) a call returns is selected from the catalog this same call resolved, never
\* from one written by another call; the catalog left stored when all calls have finished
\* is that of the resolution that completed last, not necessarily of the call started last.
C21_ModelSelectedFromOwnCatalog ==
    /\ \A c \in Callers :
        calls[c].pc = "returned" =>
            /\ calls[c].model.id = getModel(options, calls[c].result).id
            /\ calls[c].model.info = getModel(options, calls[c].result).info
            /\ calls[c].model.id \in DOMAIN calls[c].result =>
                    calls[c].model.info = calls[c].result[calls[c].model.id]
    /\ AllReturned => models = calls[LastSettled].result

\* the call started first completed last, with a listing the other did not get: its
\* catalog is the one left stored, and the other call's model came from the other catalog
C21_Witness ==
    /\ AllReturned
    /\ calls[1].started = 1 /\ calls[1].settled = MaxCallers
    /\ options.cometApiModelId = Str(<<"g","p","t","-","4","o">>)
    /\ <<"g","p","t","-","4","o">> \in DOMAIN calls[1].result
    /\ <<"g","p","t","-","4","o">> \notin DOMAIN calls[2].result
    /\ models = calls[1].result
    /\ calls[1].model.info = calls[1].result[<<"g","p","t","-","4","o">>]
    /\ calls[2].model.info = cometApiModels[cometApiDefaultModelId]

(***************************************************************************)
(* The family rules of the synthesis.                                      *)
(***************************************************************************)
\* the lower-cased identifier contains the text
Contains(id, text) ==
    LET low == toLowerCase(id)
    IN  \E k \in 0..(Len(low) - Len(text)) : \A i \in 1..Len(text) : low[k + i] = text[i]

\* the identifiers of the accepted listing that pass the media filter
Surviving == {Listing[i].id.v : i \in {j \in 1..Len(Listing) : ~MatchesMediaFilter(Listing[j].id.v)}}

IsClaudeSonnet(id) ==
    Contains(id, <<"c","l","a","u","d","e">>) /\ Contains(id, <<"3","-","5","-","s","o","n","n","e","t">>)

IsGeminiPro(id) == Contains(id, <<"g","e","m","i","n","i">>) /\ Contains(id, <<"p","r","o">>)

\* the families asked before gemini
BeforeGemini ==
    { <<"c","l","a","u","d","e">>, <<"g","p","t","-","4">>, <<"g","p","t","-","3",".","5">>,
      <<"q","w","e","n">>, <<"a","b","a","b">> }

\* C22: every surviving identifier whose lower-cased form contains "claude" and
\* "3-5-sonnet" is synthesized with contextWindow 200000 and supportsImages true, and
\* every one that contains "gemini" and "pro" with contextWindow 2097152 and
\* supportsImages true.
C22_SonnetAndGeminiProWindows ==
    (catPc = "returned" /\ fetched = "ok") =>
        \A id \in Surviving :
            /\ IsClaudeSonnet(id) => (catResult[id].contextWindow = 200000 /\ catResult[id].supportsImages)
            /\ IsGeminiPro(id) => (catResult[id].contextWindow = 2097152 /\ catResult[id].supportsImages)

\* C22, amended: the gemini rule is reached only by an identifier that contains none of
\* the families asked before it (claude, gpt-4, gpt-3.5, qwen, abab).
C22_SonnetAndGeminiProWindowsInOrder ==
    (catPc = "returned" /\ fetched = "ok") =>
        \A id \in Surviving :
            /\ IsClaudeSonnet(id) => (catResult[id].contextWindow = 200000 /\ catResult[id].supportsImages)
            /\ (IsGeminiPro(id) /\ \A family \in BeforeGemini : ~Contains(id, family)) =>
                    (catResult[id].contextWindow = 2097152 /\ catResult[id].supportsImages)

C22_Witness ==
    /\ catPc = "returned" /\ fetched = "ok"
    /\ Surviving = {cometApiDefaultModelId, <<"G","e","m","i","n","i","-","P","r","o">>}
    /\ catResult[<<"G","e","m","i","n","i","-","P","r","o">>].contextWindow = 2097152
    /\ catResult[cometApiDefaultModelId].contextWindow = 200000
    /\ "maxTokens" \notin DOMAIN catResult[cometApiDefaultModelId]

\* an identifier of two families: gpt-4 is asked first, the gemini rule is not applied
C22_WitnessTwoFamilies ==
    /\ catPc = "returned" /\ fetched = "ok"
    /\ IsGeminiPro(<<"g","p","t","-","4","-","g","e","m","i","n","i","-","p","r","o">>)
    /\ <<"g","p","t","-","4","-","g","e","m","i","n","i","-","p","r","o">> \in Surviving
    /\ catResult[<<"g","p","t","-","4","-","g","e","m","i","n","i","-","p","r","o">>].contextWindow = 128000
    /\ ~catResult[<<"g","p","t","-","4","-","g","e","m","i","n","i","-","p","r","o">>].supportsImages

\* the family substrings in the order in which they are asked
FamilyOrder ==
    << <<"c","l","a","u","d","e">>, <<"g","p","t","-","4">>, <<"g","p","t","-","3",".","5">>,
       <<"q","w","e","n">>, <<"a","b","a","b">>, <<"g","e","m","i","n","i">>,
       <<"l","l","a","m","a">>, <<"m","i","s","t","r","a","l">>, <<"y","i","-">>,
       <<"d","e","e","p","s","e","e","k">> >>

\* k is the first family whose substring occurs in the identifier, 0 when none does
IsFirstFamily(id, k) ==
    /\ k = 0 \/ Contains(id, FamilyOrder[k])
    /\ \A j \in 1..(IF k = 0 THEN Len(FamilyOrder) ELSE k - 1) : ~Contains(id, FamilyOrder[j])

\* the context windows and the descriptions each family's rule can give
FamilyWindows ==
    << {200000}, {128000}, {16385}, {32768}, {245760}, {2097152, 1048576}, {131072, 8192},
       {32768}, {200000}, {64000} >>

FamilyDescriptions ==
    << { <<"Claude 3.5 Sonnet - Advanced reasoning and code generation">>,
         <<"Claude 3.5 Haiku - Fast and efficient responses">>,
         <<"Claude 3 series - Advanced AI assistant">> },
       { <<"GPT-4o - Optimized for speed and cost">>, <<"GPT-4 - Advanced language model">> },
       { <<"GPT-3.5 Turbo - Fast and capable">> },
       { <<"Qwen ", " - Alibaba's language model">>, <<"Qwen ", "Coder", " - Alibaba's language model">> },
       { <<"Minimax Abab - Chinese-optimized language model">> },
       { <<"Google Gemini - Multimodal AI model">> },
       { <<"Meta Llama - Open source language model">> },
       { <<"Mistral AI - European AI excellence">> },
       { <<"01.AI Yi - Bilingual AI model">> },
       { <<"DeepSeek - Code and reasoning specialist">> } >>

\* an identifier with "claude" that none of the three claude rules takes
NoClaudeRule(id) ==
    /\ ~Contains(id, <<"3","-","5","-","s","o","n","n","e","t">>)
    /\ ~Contains(id, <<"3","-","5","-","h","a","i","k","u">>)
    /\ ~Contains(id, <<"c","l","a","u","d","e","-","3">>)

\* what the rule of family k, 0 for none, makes of an identifier
FamilyRuleApplied(id, k, entry) ==
    IF k = 0 \/ (k = 1 /\ NoClaudeRule(id))
    THEN /\ entry.contextWindow = 8192
         /\ entry.supportsImages = FALSE
         /\ entry.description = id
    ELSE /\ entry.contextWindow \in FamilyWindows[k]
         /\ entry.description \in FamilyDescriptions[k]

\* C23: the family rules are asked in the order claude, gpt-4, gpt-3.5, qwen, abab, gemini,
\* llama, mistral, yi-, deepseek and only the first family whose substring occurs in the
\* lower-cased identifier is applied; an identifier of no family, and one with "claude"
\* but none of "3-5-sonnet", "3-5-haiku", "claude-3", keeps contextWindow 8192,
\* supportsImages false and its own identifier as description. supportsPromptCache is
\* always false and the descriptor's context_length and max_tokens change nothing.
C23_FirstFamilyInOrderApplies ==
    (catPc = "returned" /\ fetched = "ok") =>
        \A id \in Surviving :
            /\ \E k \in 0..Len(FamilyOrder) :
                IsFirstFamily(id, k) /\ FamilyRuleApplied(id, k, catResult[id])
            /\ catResult[id].supportsPromptCache = FALSE
            /\ DOMAIN catResult[id] = {"contextWindow", "supportsImages", "supportsPromptCache",
                                       "inputPrice", "outputPrice", "description"}

\* an identifier of two families gets the earlier one's rule, and a descriptor with its
\* own context_length 4096 and max_tokens 1024 gets the family's window
C23_Witness ==
    /\ catPc = "returned" /\ fetched = "ok"
    /\ Len(Listing) = 2
    /\ Listing[1].id.v = <<"d","e","e","p","s","e","e","k","-","l","l","a","m","a">>
    /\ Listing[2] = [id |-> Str(HaikuId), pricing |-> NoPricing,
                     context_length |-> Num(4096), max_tokens |-> Num(1024)]
    /\ catResult[Listing[1].id.v].description = <<"Meta Llama - Open source language model">>
    /\ catResult[Listing[1].id.v].contextWindow = 8192
    /\ catResult[HaikuId].contextWindow = 200000

\* the defaults: an identifier of no family, and a claude identifier no rule takes
C23_WitnessDefaults ==
    /\ catPc = "returned" /\ fetched = "ok"
    /\ Surviving = {<<"p","h","i","-","3">>, <<"c","l","a","u","d","e","-","2">>}
    /\ catResult[<<"p","h","i","-","3">>].description = <<"p","h","i","-","3">>
    /\ catResult[<<"c","l","a","u","d","e","-","2">>].contextWindow = 8192

(***************************************************************************)
(* The static identifiers in every returned catalog.                       *)
(***************************************************************************)
\* C24: every identifier of the static table is a key of every catalog getCometAPIModels
\* returns, on every path; a static entry whose identifier is not listed, or is filtered,
\* in the remote response is returned unchanged, and an empty remote data array yields a
\* catalog equal to the static table.
C24_StaticIdsAlwaysPresent ==
    catPc = "returned" =>
        /\ catRaised = Undef
        /\ \A id \in DOMAIN cometApiModels :
            /\ id \in DOMAIN catResult
            /\ id \notin Surviving => catResult[id] = cometApiModels[id]
        /\ (fetched = "ok" /\ Listing = <<>>) => catResult = cometApiModels

\* the remote answers 200 with an empty data array
C24_Witness ==
    /\ catPc = "returned" /\ fetched = "ok"
    /\ resp.status = 200 /\ resp.body.data = Arr(<<>>)
    /\ httpRequests # <<>>
    /\ catResult = cometApiModels

\* the remote lists other identifiers only: both static entries are returned unchanged
C24_WitnessOthersListed ==
    /\ catPc = "returned" /\ fetched = "ok"
    /\ Surviving = {<<"g","p","t","-","4","o">>}
    /\ Len(Listing) = 2
    /\ DOMAIN catResult = DOMAIN cometApiModels \cup Surviving
    /\ \A id \in DOMAIN cometApiModels : catResult[id] = cometApiModels[id]

(***************************************************************************)
(* createMessage is driven by the caller's pulls.                          *)
(***************************************************************************)
Streaming == op = "createMessage"

\* C25: createMessage is lazy and pull-driven: the call performs no catalog fetch and no
\* completion request until the caller pulls the first item; on the first pull the catalog
\* is resolved first and the request is issued only afterwards, with the model selected
\* from that freshly resolved catalog; the next chunk is read from the source only when
\* the caller has pulled again.
C25_LazyAndPullDriven ==
    /\ []((Streaming /\ pc = "start") =>
            (~pending /\ httpRequests = <<>> /\ requests = <<>> /\ catPc = "idle" /\ fetched = "none"))
    /\ [][(op = "none" /\ op' = "createMessage") =>
            (~pending' /\ httpRequests' = httpRequests /\ requests' = requests /\ catPc' = catPc)]_vars
    /\ [][(Streaming /\ ~pending /\ ~pending') =>
            UNCHANGED <<httpRequests, requests, delivered, events, catPc>>]_vars
    /\ [][(Streaming /\ requests' # requests) =>
            /\ catPc = "returned" /\ fetched # "none"
            /\ models' = catResult
            /\ requests' = <<completionParams(options, catResult, TRUE)>>
            /\ requests'[1].model = getModel(options, catResult).id]_vars
    /\ [][(Streaming /\ delivered' # delivered) =>
            (pending /\ pc = "loop" /\ Len(delivered') = Len(delivered) + 1)]_vars
    /\ []((Streaming /\ pc = "yieldedText") => (~pending /\ Len(events) <= Len(delivered)))

\* a text was yielded after a fetch that resolved a merged catalog; the generator is
\* suspended and nothing further has been read
C25_Witness ==
    /\ Streaming /\ pc = "yieldedText" /\ ~pending
    /\ fetched = "ok" /\ Len(httpRequests) = 1
    /\ requests = <<completionParams(options, models, TRUE)>>
    /\ models = catResult /\ models # cometApiModels
    /\ Len(delivered) = 2 /\ Len(events) = 1

\* called and not yet pulled, on a handler that has a key
C25_WitnessNotPulled ==
    /\ Streaming /\ pc = "start"
    /\ Truthy(options.cometApiKey)
    /\ httpRequests = <<>>

====
